---- MODULE Spec2Model ----
(***************************************************************************)
(* Dispatch and delivery core of backend/main.py (Brain Bot web API).      *)
(*                                                                         *)
(* The Redis store is shared by every process that serves the API and by   *)
(* the out-of-process worker pool, so the unit of atomicity is one Redis   *)
(* command.  Each handler is therefore a sequence of steps, one per Redis  *)
(* command (plus the steps that read the clock), and steps of different    *)
(* calls interleave freely.                                                *)
(***************************************************************************)
EXTENDS Integers, Sequences, FiniteSets, TLC

\* ------------------------------------------------------------------ bounds
\* Number of POST /messages/send calls made in one behaviour.
MaxDispatch == 2

\* ------------------------------------------------------- program constants
\* redis_client.expire(conv_key, 86400)
LEDGER_TTL == 86400
\* redis_client.expire(response_key, 3600)
RESPONSE_TTL == 3600
\* redis_client.lrange(conv_key, 0, 5): index of the last entry read
CONTEXT_STOP == 5
\* conversation_history[-6:]
CONTEXT_MAX == 6

\* ------------------------------------------------------------------ inputs
\* USERS_DB user ids (authenticated callers).
Users == {"u1", "u2"}
\* message_req.agent is Optional[str]; NoAgent stands for None, "" is the
\* empty string.
NoAgent == "None"
Agents == {NoAgent, "", "auto", "research"}
\* message_req.message: any str, the empty and the blank one included.
Texts == {"", " ", "hi", "remind me"}

DispatchIds == 1..MaxDispatch
\* Concurrent GET /messages/pending callers and GET /messages/stream connections.
Pollers == {"p1", "p2"}
\* A stream connection is one request to GET /messages/stream; a client that
\* connects again while a connection of theirs is open is another element.
Streams == {"s1", "s2"}
\* The specifications that need no second open connection use one.
OneStream == {"s1"}
Readers == {"h1"}

\* The limits tried for the history read: 0..MaxLimit and the default.
MaxLimit == 3
DEFAULT_LIMIT == 50
Limits == 0..MaxLimit \cup {DEFAULT_LIMIT}

\* "no TTL set on the key" (Redis TTL of -1)
NoTtl == -1

\* ------------------------------------------- routing classifier (external)
\* common.routing.is_casual
is_casual(text) == text = "hi"
\* common.routing.get_casual_response
get_casual_response(text) == "Hello! How can I help?"
\* common.routing.route_deterministic
route_deterministic(text) == IF text = "remind me" THEN "scheduler" ELSE "archivist"

\* ------------------------------------------------------------ serialisation
\* json.dumps(d): the stored value is the document's text, not the dict.
json_dumps(d) == [json |-> d]
\* json.loads(s)
json_loads(s) == s.json

\* ------------------------------------------------------------ list helpers
RECURSIVE Reverse(_)
Reverse(s) == IF s = <<>> THEN <<>> ELSE Append(Reverse(Tail(s)), Head(s))

Min(a, b) == IF a < b THEN a ELSE b
Max(a, b) == IF a > b THEN a ELSE b

\* Redis LPUSH key value: the value becomes the head of the list.
LPush(list, v) == <<v>> \o list

\* Variant of LPopRest that reads the head without removing it (LINDEX 0).
LPopRestPeek(list) == list

\* Redis LPOP key on a non-empty list: the value returned, and what stays.
LPopValue(list) == Head(list)
LPopRest(list) == Tail(list)

\* Redis LRANGE key start stop for 0 <= start, stop >= -1 (stop inclusive).
LRange(list, start, stop) ==
    LET last == IF stop < 0 THEN Len(list) + stop ELSE Min(stop, Len(list) - 1)
    IN  IF start > last THEN <<>> ELSE SubSeq(list, start + 1, last + 1)

\* Python seq[-n:] for n > 0: the last n elements.
LastN(s, n) == SubSeq(s, Max(1, Len(s) - n + 1), Len(s))

VARIABLES
    ledger,      \* web_conversation:{user_id}: Redis list, head first
    ledgerTtl,   \* TTL of web_conversation:{user_id}
    chan,        \* web_response:{user_id}: Redis list, head first
    chanTtl,     \* TTL of web_response:{user_id}
    taskQueue,   \* TASK_QUEUE: Redis list, head first
    calls,       \* the send_message calls, by call number
    polls,       \* the check_pending_messages calls, by poller
    conns,       \* the message_stream connections
    reads,       \* the last get_message_history call of each reader
    clock,       \* datetime.now()
    nextId,      \* uuid.uuid4(): the next fresh identifier
    pubLog,      \* history: the ids pushed onto each user's response list, in
                 \* order, each with the number of pops made before it
    popped,      \* history: the ids popped from each user's response list
    popCount,    \* history: the number of pops from each user's response list
    recv         \* history: the ids each user's client has received

vars == <<ledger, ledgerTtl, chan, chanTtl, taskQueue, calls, polls, conns, reads,
          clock, nextId, pubLog, popped, popCount, recv>>

store == <<ledger, ledgerTtl, chan, chanTtl, taskQueue>>
delivery == <<polls, conns, reads, pubLog, popped, popCount, recv>>

NoMsg == [id |-> 0, message |-> "", sender |-> "none", agent |-> NoAgent, timestamp |-> 0]

IdleCall ==
    [pc |-> "idle", user |-> "u1", text |-> "", agent |-> NoAgent,
     message_data |-> NoMsg, response_data |-> NoMsg, target |-> NoAgent,
     history |-> <<>>, effects |-> <<>>, error |-> "none", returned |-> NoMsg]

\* History fields of a poll.  since and pops0 are the numbers of publishes to
\* and of pops from the user's response list when the call began.  rest is
\* what was left in the list by the call's first successful lpop and has not
\* been popped by the call yet; torn says that a later lpop of the call
\* returned something else than the head of rest, or that the call returned
\* with rest not used up.
IdlePoll ==
    [pc |-> "idle", user |-> "u1", responses |-> <<>>, since |-> 0, pops0 |-> 0,
     rest |-> <<>>, torn |-> FALSE]

IdleRead == [pc |-> "idle", user |-> "u1", limit |-> 0, messages |-> <<>>]

NoFrame == [kind |-> "none", body |-> NoMsg]

\* ------------------------------------------------------------------ tokens
\* The token query parameter of /messages/stream.  form: "missing" is the
\* default "", "garbage" a string that is no JWT, "jwt" a well-formed one;
\* sig: whether the HS256 signature verifies under SECRET_KEY; exp: the exp
\* claim against the time of the request ("none": no exp claim); sub: the
\* sub claim ("none": absent).
NoToken == [form |-> "missing", sig |-> "none", exp |-> "none", sub |-> "none"]

GarbageToken == [form |-> "garbage", sig |-> "none", exp |-> "none", sub |-> "none"]

Tokens ==
    {NoToken, GarbageToken}
    \cup [form : {"jwt"}, sig : {"good", "bad"}, exp : {"future", "past", "none"},
          sub : {"none", "", "admin", "guest", "ghost"}]

\* The token create_access_token issues for a user name (it always sets exp).
AccessToken(username) == [form |-> "jwt", sig |-> "good", exp |-> "future", sub |-> username]

\* Lines 95-116: user name -> user_id.  "admin" is the default user; "guest"
\* stands for a second user of the users file.
USERS_DB == [n \in {"admin", "guest"} |-> IF n = "admin" THEN "u1" ELSE "u2"]

\* Variant of jwt_decode that does not look at the exp claim.
jwt_decodeNoExpiry(token) ==
    IF token.form # "jwt" \/ token.sig # "good"
    THEN [ok |-> FALSE, sub |-> "none"]
    ELSE [ok |-> TRUE, sub |-> token.sub]

\* Line 284: jwt.decode(token, SECRET_KEY, algorithms=[ALGORITHM]): raises a
\* PyJWTError for a string that is no JWT, for a signature that does not
\* verify and for an exp in the past; else returns the payload.
jwt_decode(token) ==
    IF token.form # "jwt" \/ token.sig # "good" \/ token.exp = "past"
    THEN [ok |-> FALSE, sub |-> "none"]
    ELSE [ok |-> TRUE, sub |-> token.sub]

\* Lines 283-291: the HTTP status of the request and the user it is for:
\* 401 when the token does not decode or carries no sub, 404 when the sub is
\* not a user, else 200 and the user's user_id.
StreamAuth(token) ==
    LET payload == jwt_decode(token) IN
    IF ~payload.ok \/ payload.sub \in {"none", ""}
    THEN [status |-> 401, user_id |-> "u1"]
    ELSE IF payload.sub \notin DOMAIN USERS_DB
         THEN [status |-> 404, user_id |-> "u1"]
         ELSE [status |-> 200, user_id |-> USERS_DB[payload.sub]]

\* cause tells what closed a connection: "client" (the client went away),
\* "error" (the loop broke on an exception), "none" while it is open or was
\* never opened.  token and http are the token and the status of the last
\* request for the connection.
ClosedConn ==
    [pc |-> "closed", user |-> "u1", frame |-> NoFrame, seen |-> 0, left |-> 0,
     cause |-> "none", token |-> NoToken, http |-> 0]

Init ==
    /\ ledger = [u \in Users |-> <<>>]
    /\ ledgerTtl = [u \in Users |-> NoTtl]
    /\ chan = [u \in Users |-> <<>>]
    /\ chanTtl = [u \in Users |-> NoTtl]
    /\ taskQueue = <<>>
    /\ calls = [c \in DispatchIds |-> IdleCall]
    /\ polls = [p \in Pollers |-> IdlePoll]
    /\ reads = [h \in Readers |-> IdleRead]
    /\ conns = [s \in Streams |-> ClosedConn]
    /\ clock = 1
    /\ nextId = 1
    /\ pubLog = [u \in Users |-> <<>>]
    /\ popped = [u \in Users |-> {}]
    /\ popCount = [u \in Users |-> 0]
    /\ recv = [u \in Users |-> {}]

\* ------------------------------------------------------------ send_message
\* Lines 190-204: resolve the user, read the clock, draw the id, build
\* message_data.  No validation of message_req.message takes place.
SendBegin(c, u, text, agent) ==
    /\ calls[c].pc = "idle"
    /\ c > 1 => calls[c - 1].pc # "idle"
    /\ calls' = [calls EXCEPT ![c] =
                    [@ EXCEPT !.pc = "lpush_user", !.user = u, !.text = text,
                              !.agent = agent,
                              !.message_data =
                                  [id |-> nextId, message |-> text, sender |-> "user",
                                   agent |-> NoAgent, timestamp |-> clock]]]
    /\ clock' = clock + 1
    /\ nextId' = nextId + 1
    /\ UNCHANGED <<store, delivery>>

\* Variant of SendLpushUser that moves on without storing the user message.
SendLpushUserSkipped(c) ==
    /\ calls[c].pc = "lpush_user"
    /\ calls' = [calls EXCEPT ![c].pc = "expire_user"]
    /\ UNCHANGED <<store, clock, nextId, delivery>>

\* Line 205: redis_client.lpush(conv_key, json.dumps(message_data))
SendLpushUser(c) ==
    /\ calls[c].pc = "lpush_user"
    /\ ledger' = [ledger EXCEPT ![calls[c].user] =
                     LPush(@, json_dumps(calls[c].message_data))]
    /\ calls' = [calls EXCEPT ![c].pc = "expire_user",
                              ![c].effects = Append(@, "ledger_user")]
    /\ UNCHANGED <<ledgerTtl, chan, chanTtl, taskQueue, clock, nextId, delivery>>

\* Line 206: redis_client.expire(conv_key, 86400)
SendExpireUser(c) ==
    /\ calls[c].pc = "expire_user"
    /\ ledgerTtl' = [ledgerTtl EXCEPT ![calls[c].user] = LEDGER_TTL]
    /\ calls' = [calls EXCEPT ![c].pc = "route",
                              ![c].effects = Append(@, "ledger_ttl")]
    /\ UNCHANGED <<ledger, chan, chanTtl, taskQueue, clock, nextId, delivery>>

\* Python's truth value of message_req.agent: None and "" are false.
Truthy(agent) == agent # NoAgent /\ agent # ""

\* Line 209: (not message_req.agent or message_req.agent == "auto")
AutoRouted(agent) == ~Truthy(agent) \/ agent = "auto"

\* Line 209: the whole condition of the casual branch
CasualPath(text, agent) == AutoRouted(agent) /\ is_casual(text)

\* Variant of RouteTarget that always asks the classifier.
RouteTargetIgnoresAgent(text, agent) == route_deterministic(text)

\* Lines 226-229: the agent of the Job
RouteTarget(text, agent) ==
    IF Truthy(agent) /\ agent # "auto" THEN agent ELSE route_deterministic(text)

\* Variant of SendRoute whose casual test leaves out the agent check of line
\* 209: a casual text gets the canned reply whatever agent was asked for.
SendRouteCasualFirst(c) ==
    /\ calls[c].pc = "route"
    /\ UNCHANGED <<store, delivery>>
    /\ \/ /\ is_casual(calls[c].text)
          /\ calls' = [calls EXCEPT ![c].pc = "lpush_response",
                          ![c].response_data =
                              [id |-> nextId,
                               message |-> get_casual_response(calls[c].text),
                               sender |-> "bot", agent |-> "casual",
                               timestamp |-> clock]]
          /\ clock' = clock + 1
          /\ nextId' = nextId + 1
       \/ /\ ~is_casual(calls[c].text)
          /\ calls' = [calls EXCEPT ![c].pc = "lrange",
                          ![c].target = RouteTarget(calls[c].text, calls[c].agent)]
          /\ UNCHANGED <<clock, nextId>>

\* Lines 209-229: the routing decision.  The casual branch builds
\* response_data (fresh id, clock read); the other branch picks the agent.
SendRoute(c) ==
    /\ calls[c].pc = "route"
    /\ UNCHANGED <<store, delivery>>
    /\ \/ /\ CasualPath(calls[c].text, calls[c].agent)
          /\ calls' = [calls EXCEPT ![c].pc = "lpush_response",
                          ![c].response_data =
                              [id |-> nextId,
                               message |-> get_casual_response(calls[c].text),
                               sender |-> "bot", agent |-> "casual",
                               timestamp |-> clock]]
          /\ clock' = clock + 1
          /\ nextId' = nextId + 1
       \/ /\ ~CasualPath(calls[c].text, calls[c].agent)
          /\ calls' = [calls EXCEPT ![c].pc = "lrange",
                          ![c].target = RouteTarget(calls[c].text, calls[c].agent)]
          /\ UNCHANGED <<clock, nextId>>

\* Line 219: redis_client.lpush(response_key, json.dumps(response_data))
SendLpushResponse(c) ==
    /\ calls[c].pc = "lpush_response"
    /\ chan' = [chan EXCEPT ![calls[c].user] =
                   LPush(@, json_dumps(calls[c].response_data))]
    /\ pubLog' = [pubLog EXCEPT ![calls[c].user] =
                     Append(@, [id |-> calls[c].response_data.id,
                                epoch |-> popCount[calls[c].user]])]
    /\ calls' = [calls EXCEPT ![c].pc = "expire_response",
                              ![c].effects = Append(@, "publish")]
    /\ UNCHANGED <<ledger, ledgerTtl, chanTtl, taskQueue, clock, nextId,
                   polls, conns, reads, popped, popCount, recv>>

\* Line 220: redis_client.expire(response_key, 3600); no effect on a key
\* that no longer exists (the list was drained meanwhile).
SendExpireResponse(c) ==
    /\ calls[c].pc = "expire_response"
    /\ chanTtl' = [chanTtl EXCEPT ![calls[c].user] =
                      IF chan[calls[c].user] = <<>> THEN @ ELSE RESPONSE_TTL]
    /\ calls' = [calls EXCEPT ![c].pc = "lpush_bot",
                              ![c].effects = Append(@, "channel_ttl")]
    /\ UNCHANGED <<ledger, ledgerTtl, chan, taskQueue, clock, nextId, delivery>>

\* Variant of SendLpushBot that moves on without storing the reply.
SendLpushBotSkipped(c) ==
    /\ calls[c].pc = "lpush_bot"
    /\ calls' = [calls EXCEPT ![c].pc = "expire_bot"]
    /\ UNCHANGED <<store, clock, nextId, delivery>>

\* Variant of SendLpushBot whose key is not per user: every reply goes to
\* the Ledger of user u1.
SendLpushBotSharedKey(c) ==
    /\ calls[c].pc = "lpush_bot"
    /\ ledger' = [ledger EXCEPT !["u1"] = LPush(@, json_dumps(calls[c].response_data))]
    /\ calls' = [calls EXCEPT ![c].pc = "expire_bot",
                              ![c].effects = Append(@, "ledger_bot")]
    /\ UNCHANGED <<ledgerTtl, chan, chanTtl, taskQueue, clock, nextId, delivery>>

\* Line 221: redis_client.lpush(conv_key, json.dumps(response_data))
SendLpushBot(c) ==
    /\ calls[c].pc = "lpush_bot"
    /\ ledger' = [ledger EXCEPT ![calls[c].user] =
                     LPush(@, json_dumps(calls[c].response_data))]
    /\ calls' = [calls EXCEPT ![c].pc = "expire_bot",
                              ![c].effects = Append(@, "ledger_bot")]
    /\ UNCHANGED <<ledgerTtl, chan, chanTtl, taskQueue, clock, nextId, delivery>>

\* Variant of SendExpireBot without the return of line 223: the call falls
\* through to the routing of lines 226-229.
SendExpireBotNoReturn(c) ==
    /\ calls[c].pc = "expire_bot"
    /\ ledgerTtl' = [ledgerTtl EXCEPT ![calls[c].user] = LEDGER_TTL]
    /\ calls' = [calls EXCEPT ![c].pc = "lrange",
                              ![c].effects = Append(@, "ledger_ttl"),
                              ![c].target = RouteTarget(calls[c].text, calls[c].agent)]
    /\ UNCHANGED <<ledger, chan, chanTtl, taskQueue, clock, nextId, delivery>>

\* Variant of SendExpireBot that returns the bot reply to the caller.
SendExpireBotReturnsReply(c) ==
    /\ calls[c].pc = "expire_bot"
    /\ ledgerTtl' = [ledgerTtl EXCEPT ![calls[c].user] = LEDGER_TTL]
    /\ calls' = [calls EXCEPT ![c].pc = "done",
                              ![c].effects = Append(@, "ledger_ttl"),
                              ![c].returned = calls[c].response_data]
    /\ UNCHANGED <<ledger, chan, chanTtl, taskQueue, clock, nextId, delivery>>

\* Lines 222-223: redis_client.expire(conv_key, 86400); return message_data
SendExpireBot(c) ==
    /\ calls[c].pc = "expire_bot"
    /\ ledgerTtl' = [ledgerTtl EXCEPT ![calls[c].user] = LEDGER_TTL]
    /\ calls' = [calls EXCEPT ![c].pc = "done",
                              ![c].effects = Append(@, "ledger_ttl"),
                              ![c].returned = calls[c].message_data]
    /\ UNCHANGED <<ledger, chan, chanTtl, taskQueue, clock, nextId, delivery>>

\* Lines 233-238: decode every entry read
DecodeAll(list) == [i \in 1..Len(list) |-> json_loads(list[i])]

\* Lines 232-238 and 246: recent_msgs = lrange(conv_key, 0, 5), decoded into
\* conversation_history; the Job carries reversed(conversation_history[-6:]).
ConversationContext(list) ==
    Reverse(LastN(DecodeAll(LRange(list, 0, CONTEXT_STOP)), CONTEXT_MAX))

\* Line 232: redis_client.lrange(conv_key, 0, 5)
SendLrange(c) ==
    /\ calls[c].pc = "lrange"
    /\ calls' = [calls EXCEPT ![c].pc = "enqueue",
                    ![c].history = ConversationContext(ledger[calls[c].user])]
    /\ UNCHANGED <<store, clock, nextId, delivery>>

\* Lines 240-248: Job(current_agent=agent, payload={...}); by is the id of
\* the user message of the call that built the Job (bookkeeping).
JobOf(call) ==
    [current_agent |-> call.target, text |-> call.text, source |-> "web",
     user_id |-> call.user, conversation_history |-> call.history,
     by |-> call.message_data.id]

\* Lines 249-251: redis_client.lpush(TASK_QUEUE, ...); return message_data
SendEnqueue(c) ==
    /\ calls[c].pc = "enqueue"
    /\ taskQueue' = LPush(taskQueue, JobOf(calls[c]))
    /\ calls' = [calls EXCEPT ![c].pc = "done",
                              ![c].effects = Append(@, "enqueue"),
                              ![c].returned = calls[c].message_data]
    /\ UNCHANGED <<ledger, ledgerTtl, chan, chanTtl, clock, nextId, delivery>>

\* The positions of send_message at which a Redis command is about to run.
RedisSteps ==
    {"lpush_user", "expire_user", "lpush_response", "expire_response",
     "lpush_bot", "expire_bot", "lrange", "enqueue"}

\* Variant of SendStoreError in which a failed first append is swallowed and
\* the call carries on with the next command.
SendStoreErrorSwallowed(c) ==
    /\ calls[c].pc \in RedisSteps
    /\ calls' = [calls EXCEPT
                    ![c].pc = IF calls[c].pc = "lpush_user" THEN "expire_user"
                              ELSE "failed",
                    ![c].error = "store"]
    /\ UNCHANGED <<store, clock, nextId, delivery>>

\* A Redis command of send_message raises (store unavailable): nothing
\* catches it, the call ends with that error and the command has no effect.
SendStoreError(c) ==
    /\ calls[c].pc \in RedisSteps
    /\ calls' = [calls EXCEPT ![c].pc = "failed", ![c].error = "store"]
    /\ UNCHANGED <<store, clock, nextId, delivery>>

\* Lines 209, 210, 229: is_casual, get_casual_response or route_deterministic
\* raises.  They are called only when the agent is None, "" or "auto";
\* nothing catches the exception, the call ends with that error.
SendClassifierError(c) ==
    /\ calls[c].pc = "route"
    /\ AutoRouted(calls[c].agent)
    /\ calls' = [calls EXCEPT ![c].pc = "failed", ![c].error = "classifier"]
    /\ UNCHANGED <<store, clock, nextId, delivery>>

SendStep(c) ==
    \/ SendLpushUser(c)
    \/ SendExpireUser(c)
    \/ SendRoute(c)
    \/ SendLpushResponse(c)
    \/ SendExpireResponse(c)
    \/ SendLpushBot(c)
    \/ SendExpireBot(c)
    \/ SendLrange(c)
    \/ SendEnqueue(c)

SendFault(c) ==
    \/ SendStoreError(c)
    \/ SendClassifierError(c)

\* ------------------------------------------------ check_pending_messages
\* Lines 268-271: resolve the user, responses = []
PollBegin(p, u) ==
    /\ polls[p].pc \in {"idle", "returned"}
    /\ polls' = [polls EXCEPT ![p] =
                    [pc |-> "lpop", user |-> u, responses |-> <<>>,
                     since |-> Len(pubLog[u]), pops0 |-> popCount[u],
                     rest |-> <<>>, torn |-> FALSE]]
    /\ UNCHANGED <<store, calls, conns, reads, clock, nextId, pubLog, popped, popCount, recv>>

\* The entry at the head of the response list is the one the poll's first
\* lpop left next in line.
PollExpected(p) ==
    /\ polls[p].rest # <<>>
    /\ chan[polls[p].user] # <<>>
    /\ Head(polls[p].rest) = json_loads(LPopValue(chan[polls[p].user]))

\* Variant of PollLpop whose loop stops after the first entry: the call
\* returns with one response and leaves the rest queued.
PollLpopOne(p) ==
    LET u == polls[p].user IN
    /\ polls[p].pc = "lpop"
    /\ UNCHANGED <<ledger, ledgerTtl, taskQueue, calls, conns, reads, clock, nextId, pubLog>>
    /\ \/ /\ chan[u] = <<>>
          /\ polls' = [polls EXCEPT ![p].pc = "returned"]
          /\ UNCHANGED <<chan, chanTtl, popped, popCount, recv>>
       \/ /\ chan[u] # <<>>
          /\ polls' = [polls EXCEPT
                          ![p].pc = "returned",
                          ![p].responses = Append(@, json_loads(LPopValue(chan[u]))),
                          ![p].torn = LPopRest(chan[u]) # <<>>]
          /\ chan' = [chan EXCEPT ![u] = LPopRest(@)]
          /\ chanTtl' = [chanTtl EXCEPT ![u] = IF LPopRest(chan[u]) = <<>> THEN NoTtl ELSE @]
          /\ popped' = [popped EXCEPT ![u] = @ \cup {json_loads(LPopValue(chan[u])).id}]
          /\ popCount' = [popCount EXCEPT ![u] = @ + 1]
          /\ recv' = [recv EXCEPT ![u] = @ \cup {json_loads(LPopValue(chan[u])).id}]

\* Variant of PollLpop with a blocking pop (blpop without timeout): on an
\* empty list the call waits for the next entry instead of returning.
PollLpopBlocking(p) ==
    LET u == polls[p].user IN
    /\ polls[p].pc = "lpop"
    /\ chan[u] # <<>>
    /\ polls' = [polls EXCEPT
                    ![p].responses = Append(@, json_loads(LPopValue(chan[u]))),
                    ![p].rest =
                        IF polls[p].responses = <<>>
                        THEN DecodeAll(LPopRest(chan[u]))
                        ELSE IF PollExpected(p) THEN Tail(@) ELSE <<>>,
                    ![p].torn =
                        @ \/ (polls[p].responses # <<>> /\ ~PollExpected(p))]
    /\ chan' = [chan EXCEPT ![u] = LPopRest(@)]
    /\ chanTtl' = [chanTtl EXCEPT ![u] = IF LPopRest(chan[u]) = <<>> THEN NoTtl ELSE @]
    /\ popped' = [popped EXCEPT ![u] = @ \cup {json_loads(LPopValue(chan[u])).id}]
    /\ popCount' = [popCount EXCEPT ![u] = @ + 1]
    /\ UNCHANGED <<ledger, ledgerTtl, taskQueue, calls, conns, reads, clock, nextId,
                   pubLog, recv>>

\* Lines 273-277: one turn of the loop: lpop; on nothing, return what was
\* collected; otherwise decode it, append it and loop.
PollLpop(p) ==
    LET u == polls[p].user IN
    /\ polls[p].pc = "lpop"
    /\ UNCHANGED <<ledger, ledgerTtl, taskQueue, calls, conns, reads, clock, nextId, pubLog>>
    /\ \/ /\ chan[u] = <<>>
          /\ polls' = [polls EXCEPT ![p].pc = "returned",
                          ![p].torn = @ \/ polls[p].rest # <<>>,
                          ![p].rest = <<>>]
          /\ recv' = [recv EXCEPT ![u] =
                         @ \cup {polls[p].responses[i].id : i \in 1..Len(polls[p].responses)}]
          /\ UNCHANGED <<chan, chanTtl, popped, popCount>>
       \/ /\ chan[u] # <<>>
          /\ polls' = [polls EXCEPT
                          ![p].responses = Append(@, json_loads(LPopValue(chan[u]))),
                          ![p].rest =
                              IF polls[p].responses = <<>>
                              THEN DecodeAll(LPopRest(chan[u]))
                              ELSE IF PollExpected(p) THEN Tail(@) ELSE <<>>,
                          ![p].torn =
                              @ \/ (polls[p].responses # <<>> /\ ~PollExpected(p))]
          /\ chan' = [chan EXCEPT ![u] = LPopRest(@)]
          /\ chanTtl' = [chanTtl EXCEPT ![u] = IF LPopRest(chan[u]) = <<>> THEN NoTtl ELSE @]
          /\ popped' = [popped EXCEPT ![u] = @ \cup {json_loads(LPopValue(chan[u])).id}]
          /\ popCount' = [popCount EXCEPT ![u] = @ + 1]
          /\ UNCHANGED recv

\* ---------------------------------------------------- get_message_history
\* Lines 73-77, 264: MessageResponse(**msg_data) keeps id, message, sender and
\* timestamp and ignores any other key (the agent of a bot message).
MessageResponse(msg_data) ==
    [id |-> msg_data.id, message |-> msg_data.message, sender |-> msg_data.sender,
     timestamp |-> msg_data.timestamp]

\* Lines 260-265: lrange(conv_key, 0, limit - 1), every entry decoded into a
\* MessageResponse, the list reversed.
get_message_history(list, limit) ==
    LET messages_raw == LRange(list, 0, limit - 1)
    IN  Reverse([i \in 1..Len(messages_raw) |->
                    MessageResponse(json_loads(messages_raw[i]))])

\* Lines 253-265: GET /messages/history?limit=... for user u
HistoryRead(h, u, limit) ==
    /\ reads' = [reads EXCEPT ![h] =
                    [pc |-> "returned", user |-> u, limit |-> limit,
                     messages |-> get_message_history(ledger[u], limit)]]
    /\ UNCHANGED <<store, calls, polls, conns, clock, nextId, pubLog, popped,
                   popCount, recv>>

\* --------------------------------------------------------- message_stream
\* Lines 280-292: a request with a token.  It is refused with 401 or 404
\* before anything is read from the store, or the generator starts for the
\* user of the token.  s names the connection this request makes, so it is
\* one that is not in progress: a request that arrives while other
\* connections are open takes another element of Streams and runs beside them.
StreamConnect(s, token) ==
    /\ conns[s].pc = "closed"
    /\ conns' = [conns EXCEPT ![s] =
                    IF StreamAuth(token).status = 200
                    THEN [ClosedConn EXCEPT !.pc = "tick",
                                            !.user = StreamAuth(token).user_id,
                                            !.token = token, !.http = 200]
                    ELSE [ClosedConn EXCEPT !.token = token,
                                            !.http = StreamAuth(token).status]]
    /\ UNCHANGED <<store, calls, polls, reads, clock, nextId, pubLog, popped, popCount, recv>>

\* Variant of StreamFrame with the test of line 298 inverted: a heartbeat
\* goes out for a popped entry.
StreamFrameInverted(msg) == [kind |-> "heartbeat", body |-> NoMsg]

\* Lines 298-301: the frame of one tick
StreamFrame(msg) == [kind |-> "data", body |-> json_loads(msg)]
Heartbeat == [kind |-> "heartbeat", body |-> NoMsg]

\* Variant of StreamTick with an idle timeout: a second tick in a row that
\* finds the list empty closes the connection.
StreamTickIdleTimeout(s) ==
    LET u == conns[s].user IN
    /\ conns[s].pc = "tick"
    /\ UNCHANGED <<ledger, ledgerTtl, taskQueue, calls, polls, reads, clock, nextId, pubLog, recv>>
    /\ \/ /\ chan[u] # <<>>
          /\ conns' = [conns EXCEPT ![s].pc = "yield",
                          ![s].frame = StreamFrame(LPopValue(chan[u])),
                          ![s].seen = Len(chan[u]),
                          ![s].left = Len(LPopRest(chan[u]))]
          /\ chan' = [chan EXCEPT ![u] = LPopRest(@)]
          /\ chanTtl' = [chanTtl EXCEPT ![u] = IF LPopRest(chan[u]) = <<>> THEN NoTtl ELSE @]
          /\ popped' = [popped EXCEPT ![u] = @ \cup {json_loads(LPopValue(chan[u])).id}]
          /\ popCount' = [popCount EXCEPT ![u] = @ + 1]
       \/ /\ chan[u] = <<>>
          /\ conns' = IF conns[s].frame = Heartbeat
                      THEN [conns EXCEPT ![s].pc = "closed", ![s].cause = "timeout"]
                      ELSE [conns EXCEPT ![s].pc = "yield", ![s].frame = Heartbeat,
                                         ![s].seen = 0, ![s].left = 0]
          /\ UNCHANGED <<chan, chanTtl, popped, popCount>>

\* Lines 297-301: one tick: a single lpop, then the frame to yield.  seen and
\* left record the length of the list before and after the lpop.
StreamTick(s) ==
    LET u == conns[s].user IN
    /\ conns[s].pc = "tick"
    /\ UNCHANGED <<ledger, ledgerTtl, taskQueue, calls, polls, reads, clock, nextId, pubLog, recv>>
    /\ \/ /\ chan[u] # <<>>
          /\ conns' = [conns EXCEPT ![s].pc = "yield",
                          ![s].frame = StreamFrame(LPopValue(chan[u])),
                          ![s].seen = Len(chan[u]),
                          ![s].left = Len(LPopRest(chan[u]))]
          /\ chan' = [chan EXCEPT ![u] = LPopRest(@)]
          /\ chanTtl' = [chanTtl EXCEPT ![u] = IF LPopRest(chan[u]) = <<>> THEN NoTtl ELSE @]
          /\ popped' = [popped EXCEPT ![u] = @ \cup {json_loads(LPopValue(chan[u])).id}]
          /\ popCount' = [popCount EXCEPT ![u] = @ + 1]
       \/ /\ chan[u] = <<>>
          /\ conns' = [conns EXCEPT ![s].pc = "yield", ![s].frame = Heartbeat,
                          ![s].seen = 0, ![s].left = 0]
          /\ UNCHANGED <<chan, chanTtl, popped, popCount>>

\* Lines 299-302: the frame reaches the client, then asyncio.sleep(0.3) and
\* the next turn of the loop.
StreamYield(s) ==
    LET u == conns[s].user IN
    /\ conns[s].pc = "yield"
    /\ conns' = [conns EXCEPT ![s].pc = "tick"]
    /\ recv' = [recv EXCEPT ![u] =
                   IF conns[s].frame.kind = "data" THEN @ \cup {conns[s].frame.body.id} ELSE @]
    /\ UNCHANGED <<store, calls, polls, reads, clock, nextId, pubLog, popped, popCount>>

\* Variant of StreamDisconnect that compensates: an entry popped and not
\* yet written goes back to the head of the response list.
StreamDisconnectRequeue(s) ==
    LET u == conns[s].user IN
    /\ conns[s].pc \in {"tick", "yield"}
    /\ conns' = [conns EXCEPT ![s].pc = "closed", ![s].cause = "client"]
    /\ chan' = [chan EXCEPT ![u] =
                   IF conns[s].pc = "yield" /\ conns[s].frame.kind = "data"
                   THEN LPush(@, json_dumps(conns[s].frame.body)) ELSE @]
    /\ UNCHANGED <<ledger, ledgerTtl, chanTtl, taskQueue, calls, polls, reads, clock, nextId,
                   pubLog, popped, popCount, recv>>

\* The client goes away while the generator is suspended (at the yield or in
\* the sleep): the generator is closed there and a frame not yet written is
\* discarded with it.
StreamDisconnect(s) ==
    /\ conns[s].pc \in {"tick", "yield"}
    /\ conns' = [conns EXCEPT ![s].pc = "closed", ![s].cause = "client"]
    /\ UNCHANGED <<store, calls, polls, reads, clock, nextId, pubLog, popped, popCount, recv>>

\* Lines 303-304: the lpop raises: except Exception: break
StreamError(s) ==
    /\ conns[s].pc = "tick"
    /\ conns' = [conns EXCEPT ![s].pc = "closed", ![s].cause = "error"]
    /\ UNCHANGED <<store, calls, polls, reads, clock, nextId, pubLog, popped, popCount, recv>>

\* ---------------------------------------------------------- specifications
\* Concurrent send_message calls of one user with non-blank text and an agent
\* string ("" included; the agent None is sent in the other specifications);
\* the store answers every command and the classifier returns.
Next ==
    \/ \E c \in DispatchIds, text \in Texts \ {"", " "}, agent \in Agents \ {NoAgent} :
           SendBegin(c, "u1", text, agent)
    \/ \E c \in DispatchIds : SendStep(c)

Spec == Init /\ [][Next]_vars

\* No send_message call is between its first line and its return.
NoSendInFlight == \A c \in DispatchIds : calls[c].pc \in {"idle", "done", "failed"}

\* The delivery adapters of one user against send_message calls made one
\* after the other: polls and stream ticks interleave with every step.
NextDelivery ==
    \/ \E c \in DispatchIds, text \in {"hi", "remind me"} :
           NoSendInFlight /\ SendBegin(c, "u1", text, NoAgent)
    \/ \E c \in DispatchIds : SendStep(c)
    \/ \E p \in Pollers : PollBegin(p, "u1") \/ PollLpop(p)
    \/ \E s \in OneStream :
           StreamConnect(s, AccessToken("admin")) \/ StreamTick(s) \/ StreamYield(s)
           \/ StreamDisconnect(s) \/ StreamError(s)

SpecDelivery == Init /\ [][NextDelivery]_vars

\* Several drains of one user's response list at once: two polls and two
\* stream connections open together, between the steps of send_message calls
\* made one after the other.
NextDrains ==
    \/ \E c \in DispatchIds, text \in {"hi", "remind me"} :
           NoSendInFlight /\ SendBegin(c, "u1", text, NoAgent)
    \/ \E c \in DispatchIds : SendStep(c)
    \/ \E p \in Pollers : PollBegin(p, "u1") \/ PollLpop(p)
    \/ \E s \in Streams :
           StreamConnect(s, AccessToken("admin")) \/ StreamTick(s) \/ StreamYield(s)

SpecDrains == Init /\ [][NextDrains]_vars

\* A stream connection that stays open, against send_message calls made one
\* after the other.  The generator of an open connection runs on the event
\* loop: after each sleep of 0.3 s it ticks again, and a frame it yields is
\* written, so both steps are taken whenever they stay possible.
NextStream ==
    \/ \E c \in DispatchIds, text \in {"hi", "remind me"} :
           NoSendInFlight /\ SendBegin(c, "u1", text, NoAgent)
    \/ \E c \in DispatchIds : SendStep(c)
    \/ \E s \in OneStream :
           StreamConnect(s, AccessToken("admin")) \/ StreamTick(s) \/ StreamYield(s)

SpecStream ==
    /\ Init /\ [][NextStream]_vars
    /\ \A s \in OneStream : WF_vars(StreamTick(s)) /\ WF_vars(StreamYield(s))

\* Poll calls of two clients of one user against send_message calls made
\* one after the other, whose steps fall before, between and after the
\* turns of a poll's loop.  A poll call runs its loop in the request handler
\* without waiting for anything but the store's answer, so a turn of the
\* loop that stays possible is taken.
NextPolls ==
    \/ \E c \in DispatchIds, text \in {"hi", "remind me"} :
           NoSendInFlight /\ SendBegin(c, "u1", text, NoAgent)
    \/ \E c \in DispatchIds : SendStep(c)
    \/ \E p \in Pollers : PollBegin(p, "u1") \/ PollLpop(p)

SpecPolls ==
    /\ Init /\ [][NextPolls]_vars
    /\ \A p \in Pollers : WF_vars(PollLpop(p))

\* History reads with every limit between send_message calls made one after
\* the other, and between their steps.
NextHistory ==
    \/ \E c \in DispatchIds, text \in {"hi", "remind me"} :
           NoSendInFlight /\ SendBegin(c, "u1", text, NoAgent)
    \/ \E c \in DispatchIds : SendStep(c)
    \/ \E h \in Readers, limit \in Limits : HistoryRead(h, "u1", limit)

SpecHistory == Init /\ [][NextHistory]_vars

\* Two users: send_message calls one after the other for either user, and
\* between their steps polls, a stream connection and history reads of
\* either user.
NextIsolation ==
    \/ \E c \in DispatchIds, u \in Users, text \in {"hi", "remind me"} :
           NoSendInFlight /\ SendBegin(c, u, text, NoAgent)
    \/ \E c \in DispatchIds : SendStep(c)
    \/ \E u \in Users : PollBegin("p1", u)
    \/ PollLpop("p1")
    \/ \E s \in OneStream, name \in DOMAIN USERS_DB : StreamConnect(s, AccessToken(name))
    \/ \E s \in OneStream : StreamTick(s) \/ StreamYield(s)
    \/ \E h \in Readers, u \in Users : HistoryRead(h, u, DEFAULT_LIMIT)

SpecIsolation == Init /\ [][NextIsolation]_vars

\* Stream requests with every kind of token against messages of two users
\* sent one after the other.
NextAuth ==
    \/ \E c \in DispatchIds, u \in Users, text \in {"hi", "remind me"} :
           NoSendInFlight /\ SendBegin(c, u, text, NoAgent)
    \/ \E c \in DispatchIds : SendStep(c)
    \/ \E s \in OneStream, token \in Tokens : StreamConnect(s, token)
    \/ \E s \in OneStream :
           StreamTick(s) \/ StreamYield(s) \/ StreamDisconnect(s) \/ StreamError(s)

SpecAuth == Init /\ [][NextAuth]_vars

\* send_message calls made one after the other, any Redis command of which
\* may raise, and any classifier call of which may raise.
NextFaults ==
    \/ \E c \in DispatchIds, text \in Texts, agent \in Agents :
           NoSendInFlight /\ SendBegin(c, "u1", text, agent)
    \/ \E c \in DispatchIds : SendStep(c)
    \/ \E c \in DispatchIds : SendFault(c)

SpecFaults == Init /\ [][NextFaults]_vars

\* ------------------------------------------------------------------ claims
\* text.strip() == "": the texts a validation of the input would refuse.
Blank(text) == text \in {"", " "}

\* The ids of a list of stored (encoded) messages, as a sequence.
IdsOf(list) == [i \in 1..Len(list) |-> json_loads(list[i]).id]

\* The positions of id in a sequence of ids.
Positions(ids, id) == {i \in 1..Len(ids) : ids[i] = id}

\* The ids pushed onto user u's response list, in order.
Pushed(u) == [i \in 1..Len(pubLog[u]) |-> pubLog[u][i].id]

Range(f) == {f[i] : i \in DOMAIN f}

\* The Jobs on the task queue built by call c.
JobsBy(c) == {i \in 1..Len(taskQueue) : taskQueue[i].by = calls[c].message_data.id}

\* C1: a send_message call with non-blank text appends exactly one entry with
\* sender=user to the user's Ledger, and that append comes before every other
\* side effect of the call (response publish, bot Ledger write, Job enqueue).
C1_UserAppendFirst ==
    \A c \in DispatchIds :
        (calls[c].pc # "idle" /\ ~Blank(calls[c].text)) =>
            LET u == calls[c].user
                e == calls[c].effects
                ids == IdsOf(ledger[u])
                mine == Positions(ids, calls[c].message_data.id)
                bot == Positions(ids, calls[c].response_data.id)
            IN  /\ Cardinality(mine) <= 1
                /\ \A i \in mine : json_loads(ledger[u][i]) = calls[c].message_data
                /\ calls[c].message_data.sender = "user"
                /\ e # <<>> => e[1] = "ledger_user" /\ Cardinality(mine) = 1
                /\ \A i \in 2..Len(e) : e[i] # "ledger_user"
                /\ calls[c].pc = "done" => Cardinality(mine) = 1
                /\ ( \/ calls[c].response_data.id \in Range(Pushed(u))
                     \/ bot # {}
                     \/ JobsBy(c) # {} ) => Cardinality(mine) = 1
                /\ \A i \in mine, j \in bot : j < i

\* A casual call and a queued call have both returned.
C1_Witness ==
    \E c, d \in DispatchIds :
        /\ calls[c].pc = "done" /\ calls[c].text = "hi" /\ calls[c].effects[3] = "publish"
        /\ calls[d].pc = "done" /\ calls[d].text = "remind me" /\ JobsBy(d) # {}

\* C2: the Jobs pushed onto the task queue are those of the calls off the
\* casual path: a returned call on the casual path has pushed none, a returned
\* call off it exactly one, and nothing else is on the queue.
C2_OneJobPerNonCasual ==
    /\ \A c \in DispatchIds :
          Cardinality(JobsBy(c)) =
              IF calls[c].pc = "done" /\ ~CasualPath(calls[c].text, calls[c].agent)
              THEN 1 ELSE 0
    /\ Len(taskQueue) =
          Cardinality({c \in DispatchIds :
                          calls[c].pc = "done" /\ ~CasualPath(calls[c].text, calls[c].agent)})

\* Two calls that overlapped in time have returned, one casual, one queued.
C2_Witness ==
    \E c, d \in DispatchIds :
        /\ calls[c].pc = "done" /\ CasualPath(calls[c].text, calls[c].agent)
        /\ calls[d].pc = "done" /\ ~CasualPath(calls[d].text, calls[d].agent)
        /\ calls[c].user = calls[d].user
        /\ Len(taskQueue) = 1
        /\ c < d
        /\ calls[d].message_data.timestamp < calls[c].response_data.timestamp

\* The place of id among the pushes onto user u's response list.
PubIndex(u, id) == CHOOSE i \in 1..Len(pubLog[u]) : pubLog[u][i].id = id

\* C3: two bot messages published to one user's response list one after the
\* other, with no drain in between, come out of a later poll in publish
\* order, the earlier one first.
C3_PublishOrderKept ==
    \A p \in Pollers :
        polls[p].pc = "returned" =>
            LET u == polls[p].user
                r == polls[p].responses
            IN  \A i, j \in 1..Len(r) :
                    LET a == PubIndex(u, r[i].id)
                        b == PubIndex(u, r[j].id)
                    IN  ( /\ a < b
                          /\ b <= polls[p].since
                          /\ pubLog[u][a].epoch = pubLog[u][b].epoch ) => i < j

\* The ids a drain caller holds: what a poll has collected, what a stream
\* connection popped on its last tick.
HeldByPoll(p) == {polls[p].responses[i].id : i \in 1..Len(polls[p].responses)}
HeldByConn(s) == IF conns[s].frame.kind = "data" THEN {conns[s].frame.body.id} ELSE {}

\* C4: concurrent drains of one user's response list (several polls, several
\* stream connections, or both) hand every entry to exactly one caller and lose none: no entry is popped
\* twice, the callers' results are pairwise disjoint, and what was popped
\* together with what is still queued is exactly what was published.
C4_DrainsPartition ==
    /\ \A u \in Users :
          LET queued == Range(IdsOf(chan[u])) IN
          /\ Cardinality(popped[u]) = popCount[u]
          /\ queued \cap popped[u] = {}
          /\ queued \cup popped[u] = Range(Pushed(u))
          /\ Len(chan[u]) + popCount[u] = Len(pubLog[u])
    /\ \A p, q \in Pollers : p # q => HeldByPoll(p) \cap HeldByPoll(q) = {}
    /\ \A p \in Pollers, s \in Streams : HeldByPoll(p) \cap HeldByConn(s) = {}
    /\ \A s, t \in Streams : s # t => HeldByConn(s) \cap HeldByConn(t) = {}
    /\ \A p \in Pollers : HeldByPoll(p) \subseteq popped[polls[p].user]
    /\ \A p \in Pollers : Cardinality(HeldByPoll(p)) = Len(polls[p].responses)
    /\ \A s \in Streams : HeldByConn(s) \subseteq popped[conns[s].user]

\* Two stream connections and two polls of one user are under way at once,
\* and each connection has popped an entry and not yet written it.
C4_Witness ==
    \E p, q \in Pollers, s, t \in Streams :
        /\ p # q /\ s # t
        /\ polls[p].pc = "lpop"
        /\ polls[q].pc = "lpop"
        /\ conns[s].pc = "yield" /\ HeldByConn(s) # {}
        /\ conns[t].pc = "yield" /\ HeldByConn(t) # {}
        /\ polls[p].user = polls[q].user
        /\ conns[s].user = polls[p].user /\ conns[t].user = polls[p].user

\* C5: the conversation context of every Job holds at most 6 Ledger entries
\* of the user, oldest first, and its last entry is the user message created
\* by the call that built the Job.
C5_ContextEndsWithOwnMessage ==
    \A i \in 1..Len(taskQueue) :
        LET h == taskQueue[i].conversation_history IN
        /\ Len(h) <= CONTEXT_MAX
        /\ h # <<>>
        /\ h[Len(h)].id = taskQueue[i].by
        /\ h[Len(h)].sender = "user"

\* C6: a send_message call with empty or whitespace-only text is rejected
\* before any side effect: nothing of it reaches the Ledger, the response
\* list or the task queue.
C6_BlankTextRejected ==
    \A c \in DispatchIds :
        (calls[c].pc # "idle" /\ Blank(calls[c].text)) =>
            /\ calls[c].effects = <<>>
            /\ calls[c].pc # "done"
            /\ Positions(IdsOf(ledger[calls[c].user]), calls[c].message_data.id) = {}
            /\ JobsBy(c) = {}

\* C7: a classifier call that raises does not end send_message with an
\* error: the call goes on with a default agent, enqueues one Job and returns
\* the user message.
C7_ClassifierFailureRecovered ==
    \A c \in DispatchIds : ~(calls[c].pc = "failed" /\ calls[c].error = "classifier")

\* C8: across polls, stream ticks, disconnects and reconnects every entry
\* published to a user's response list reaches the client exactly once: it is
\* popped at most once, and at any time it is still queued, or in the hands
\* of a poll or a tick that is about to send it, or received.
C8_DeliveredExactlyOnce ==
    \A u \in Users :
        /\ Cardinality(popped[u]) = popCount[u]
        /\ \A id \in Range(Pushed(u)) :
              \/ id \in Range(IdsOf(chan[u]))
              \/ \E p \in Pollers :
                    polls[p].pc = "lpop" /\ polls[p].user = u /\ id \in HeldByPoll(p)
              \/ \E s \in Streams :
                    conns[s].pc = "yield" /\ conns[s].user = u /\ id \in HeldByConn(s)
              \/ id \in recv[u]

\* C9 as stated: a tick that finds the response list non-empty sends every
\* queued entry, leaving the list empty, and no heartbeat; a tick that finds
\* it empty sends one heartbeat.
C9_TickDrainsAll ==
    \A s \in Streams :
        conns[s].pc = "yield" =>
            IF conns[s].seen > 0
            THEN conns[s].frame.kind = "data" /\ conns[s].left = 0
            ELSE conns[s].frame = Heartbeat

\* C9 (amended): a tick pops at most one entry: if the response list is
\* non-empty, exactly one entry is popped and sent as one event, with no
\* heartbeat, and the others stay queued; if it is empty, one heartbeat is
\* sent and no event.
C9_TickPopsOne ==
    \A s \in Streams :
        conns[s].pc = "yield" =>
            IF conns[s].seen > 0
            THEN /\ conns[s].frame.kind = "data"
                 /\ conns[s].frame.body.sender = "bot"
                 /\ conns[s].frame.body.id \in popped[conns[s].user]
                 /\ conns[s].left = conns[s].seen - 1
            ELSE conns[s].frame = Heartbeat /\ conns[s].left = 0

\* A tick found two entries queued and is about to send one of them.
C9_Witness ==
    \E s \in Streams :
        conns[s].pc = "yield" /\ conns[s].seen = 2 /\ conns[s].frame.kind = "data"

\* C10: every user's Ledger lists the messages created for the user newest
\* first by timestamp.
C10_LedgerNewestFirst ==
    \A u \in Users :
        LET l == DecodeAll(ledger[u]) IN
        /\ \A i, j \in 1..Len(l) : i < j => l[i].timestamp >= l[j].timestamp
        /\ \A c \in DispatchIds :
              (calls[c].user = u /\ calls[c].pc = "done") =>
                  \E i \in 1..Len(l) : l[i] = calls[c].message_data

\* Whether the request names an agent of its own: a non-empty string other
\* than "auto" (an empty agent string names none).
Explicit(agent) == agent \notin {NoAgent, "", "auto"}

\* C11: a call that names an agent other than "auto" enqueues one Job for
\* that agent and publishes no casual reply, even for a casual text; a call
\* with no agent or "auto" and a text that is not casual enqueues a Job for
\* the classifier's deterministic assignment of the text.
C11_RoutingPrecedence ==
    \A c \in DispatchIds :
        LET u == calls[c].user IN
        /\ (calls[c].pc # "idle" /\ Explicit(calls[c].agent)) =>
              /\ calls[c].response_data = NoMsg
              /\ \A i \in 1..Len(calls[c].effects) : calls[c].effects[i] # "publish"
              /\ \A i \in JobsBy(c) : taskQueue[i].current_agent = calls[c].agent
              /\ calls[c].pc = "done" => Cardinality(JobsBy(c)) = 1
        /\ (calls[c].pc # "idle" /\ ~Explicit(calls[c].agent) /\ ~is_casual(calls[c].text)) =>
              /\ \A i \in JobsBy(c) :
                    taskQueue[i].current_agent = route_deterministic(calls[c].text)
              /\ calls[c].pc = "done" => Cardinality(JobsBy(c)) = 1

\* A casual text sent to an explicit agent and a plain text sent with "auto"
\* have both been queued.
C11_Witness ==
    \E c, d \in DispatchIds :
        /\ calls[c].pc = "done" /\ calls[c].text = "hi" /\ calls[c].agent = "research"
        /\ calls[d].pc = "done" /\ calls[d].text = "remind me" /\ calls[d].agent = "auto"
        /\ \E i \in JobsBy(d) : taskQueue[i].current_agent = "scheduler"

\* How many times id occurs in a sequence of ids.
Count(ids, id) == Cardinality(Positions(ids, id))

\* C12: a returned call on the casual path has created one bot message with
\* the classifier's canned reply, and that message (same id) has been
\* published to the user's response list once and appended to the user's
\* Ledger once, with no Job pushed.
C12_CasualReplyOnce ==
    \A c \in DispatchIds :
        (calls[c].pc = "done" /\ CasualPath(calls[c].text, calls[c].agent)) =>
            LET u == calls[c].user
                r == calls[c].response_data
                inLedger == Positions(IdsOf(ledger[u]), r.id)
            IN  /\ r.sender = "bot"
                /\ r.message = get_casual_response(calls[c].text)
                /\ r.id # calls[c].message_data.id
                /\ Count(Pushed(u), r.id) = 1
                /\ Cardinality(inLedger) = 1
                /\ \A i \in inLedger : json_loads(ledger[u][i]) = r
                /\ \A v \in Users \ {u} : Count(Pushed(v), r.id) = 0
                /\ JobsBy(c) = {}

\* Two casual calls have returned.
C12_Witness ==
    \E c, d \in DispatchIds :
        /\ c # d
        /\ calls[c].pc = "done" /\ CasualPath(calls[c].text, calls[c].agent)
        /\ calls[d].pc = "done" /\ CasualPath(calls[d].text, calls[d].agent)

\* C16: a call off the casual path writes no bot message: it publishes
\* nothing to the response list and adds only its user message to the
\* Ledger, so every bot message in the Ledger or ever published is the reply
\* of a casual call.
C16_NonCasualWritesNoBot ==
    /\ \A c \in DispatchIds :
          (calls[c].pc # "idle" /\ ~CasualPath(calls[c].text, calls[c].agent)) =>
              /\ calls[c].response_data = NoMsg
              /\ \A i \in 1..Len(calls[c].effects) :
                    calls[c].effects[i] \in {"ledger_user", "ledger_ttl", "enqueue"}
    /\ \A u \in Users :
          /\ \A i \in 1..Len(ledger[u]) :
                json_loads(ledger[u][i]).sender = "bot" =>
                    \E c \in DispatchIds :
                        /\ CasualPath(calls[c].text, calls[c].agent)
                        /\ calls[c].response_data = json_loads(ledger[u][i])
          /\ \A i \in 1..Len(pubLog[u]) :
                \E c \in DispatchIds :
                    /\ CasualPath(calls[c].text, calls[c].agent)
                    /\ calls[c].response_data.id = pubLog[u][i].id
          /\ Len(ledger[u]) =
                Cardinality({c \in DispatchIds :
                                calls[c].user = u /\ "ledger_user" \in Range(calls[c].effects)})
                + Cardinality({c \in DispatchIds :
                                calls[c].user = u /\ "ledger_bot" \in Range(calls[c].effects)})

\* Two calls off the casual path have returned: the Ledger holds their two
\* user messages and nothing was published.
C16_Witness ==
    /\ \A c \in DispatchIds :
          calls[c].pc = "done" /\ ~CasualPath(calls[c].text, calls[c].agent)
    /\ Len(ledger["u1"]) = MaxDispatch
    /\ pubLog["u1"] = <<>>

\* C13: when the append of the user message to the Ledger fails because the
\* store is unavailable, the call ends with that error and nothing
\* downstream has happened or happens: no reply is built or published, no
\* bot message is written to the Ledger and no Job is pushed.
C13_FailedAppendAborts ==
    \A c \in DispatchIds :
        (calls[c].error = "store" /\ "ledger_user" \notin Range(calls[c].effects)) =>
            LET u == calls[c].user IN
            /\ calls[c].pc = "failed"
            /\ calls[c].effects = <<>>
            /\ calls[c].response_data = NoMsg
            /\ calls[c].returned = NoMsg
            /\ Count(IdsOf(ledger[u]), calls[c].message_data.id) = 0
            /\ JobsBy(c) = {}

\* The first call lost its Ledger append to a store error while a later call
\* of the same user went through.
C13_Witness ==
    \E c, d \in DispatchIds :
        /\ calls[c].pc = "failed" /\ calls[c].error = "store"
        /\ calls[c].effects = <<>>
        /\ calls[d].pc = "done"
        /\ ledger[calls[c].user] # <<>>

\* C20: every append to a user's Ledger is followed by the reset of its
\* retention horizon to LEDGER_TTL, so outside the moment between an append
\* and its reset a Ledger that holds an entry carries that horizon.
C20_LedgerAlwaysHasHorizon ==
    \A u \in Users :
        (/\ ledger[u] # <<>>
         /\ \A c \in DispatchIds :
               calls[c].user = u => calls[c].pc \notin {"expire_user", "expire_bot"})
        => ledgerTtl[u] = LEDGER_TTL

\* C14: the list a poll returns is the whole content of the user's response
\* list at one instant of the call, also with publishes and other drains
\* going on.  An entry is in the list from its publish to its pop, and the
\* poll pops at the head, so such an instant exists exactly when the call's
\* later lpops return, in order, what its first lpop left in the list and
\* nothing is left of it at the return.
C14_DrainIsOneSnapshot ==
    \A p \in Pollers : polls[p].pc = "returned" => ~polls[p].torn

\* C15: of two polls one after the other with nothing published meanwhile,
\* the first returns every entry that was queued and leaves the list empty,
\* and the second, which so begins on an empty list, returns the empty list.
C15_SecondPollEmpty ==
    \A p \in Pollers :
        LET u == polls[p].user
            noPublish == Len(pubLog[u]) = polls[p].since
            queued0 == polls[p].since - polls[p].pops0
        IN  /\ (polls[p].pc = "returned" /\ noPublish) =>
                  /\ chan[u] = <<>>
                  /\ popCount[u] = Len(pubLog[u])
                  /\ popCount[u] - polls[p].pops0 = Len(polls[p].responses) =>
                        Len(polls[p].responses) = queued0
            /\ (polls[p].pc \in {"lpop", "returned"} /\ noPublish /\ queued0 = 0) =>
                  polls[p].responses = <<>>

\* One poll has returned the two queued entries and a later poll has
\* returned the empty list, with nothing published since the first began.
C15_Witness ==
    \E p, q \in Pollers :
        /\ polls[p].pc = "returned" /\ Len(polls[p].responses) = 2
        /\ polls[p].since = Len(pubLog[polls[p].user])
        /\ polls[q].pc = "returned" /\ polls[q].responses = <<>>
        /\ polls[q].user = polls[p].user
        /\ polls[q].since = polls[p].since
        /\ polls[q].pops0 = polls[q].since

\* C17: a closed stream connection is final: until the client connects anew
\* it drains nothing and sends neither event nor heartbeat, and the step
\* that closes it compensates nothing: the Ledger, the response lists, the
\* task queue and what clients have received stay as they were, and an
\* entry popped and not yet written is not put back.
\* (A change of a closed connection is a new request of the client.)
C17_ClosedIsTerminal ==
    [][\A s \in Streams :
          /\ (conns[s].pc = "closed" /\ conns'[s] # conns[s]) =>
                /\ conns'[s].http \in {200, 401, 404}
                /\ conns'[s].pc = IF conns'[s].http = 200 THEN "tick" ELSE "closed"
                /\ conns'[s].frame = NoFrame
                /\ conns'[s].cause = "none"
                /\ UNCHANGED <<store, calls, polls, pubLog, popped, popCount, recv>>
          /\ (conns[s].pc # "closed" /\ conns'[s].pc = "closed") =>
                /\ conns'[s].cause \in {"client", "error"}
                /\ conns'[s].frame = conns[s].frame
                /\ UNCHANGED <<store, calls, polls, pubLog, popped, popCount, recv>>
      ]_vars

\* A connection was closed by its client with a popped entry not yet
\* written, while a Job and another entry are still queued.
C17_Witness ==
    \E s \in Streams :
        /\ conns[s].pc = "closed" /\ conns[s].cause = "client"
        /\ conns[s].frame.kind = "data"
        /\ conns[s].frame.body.id \notin recv[conns[s].user]
        /\ chan[conns[s].user] # <<>>

\* C18: a tick of an open connection that finds the response list empty
\* sends one heartbeat and nothing else, pops nothing and leaves the
\* connection open, whatever was sent before; an open connection is closed
\* only by its client or by an error, never by an idle timeout.
C18_IdleStreamHeartbeats ==
    [][\A s \in Streams :
          /\ (/\ conns[s].pc = "tick"
              /\ chan[conns[s].user] = <<>>
              /\ conns'[s] # conns[s]) =>
                \/ /\ conns'[s].pc = "yield"
                   /\ conns'[s].frame = Heartbeat
                   /\ UNCHANGED <<store, popped, popCount, recv>>
                \/ /\ conns'[s].pc = "closed"
                   /\ conns'[s].cause \in {"client", "error"}
          /\ (/\ conns[s].pc = "yield"
              /\ conns[s].frame = Heartbeat
              /\ conns'[s] # conns[s]) =>
                \/ /\ conns'[s].pc = "tick"
                   /\ conns'[s].frame = Heartbeat
                   /\ UNCHANGED <<store, popped, popCount, recv>>
                \/ /\ conns'[s].pc = "closed"
                   /\ conns'[s].cause = "client"
      ]_vars

\* A connection is about to send a heartbeat right after another heartbeat,
\* with a Job on the task queue that nobody has answered.
C18_Witness ==
    \E s \in Streams :
        /\ conns[s].pc = "tick"
        /\ conns[s].frame = Heartbeat
        /\ chan[conns[s].user] = <<>>
        /\ taskQueue # <<>>

\* What a token must be for the request to be authenticated: a JWT signed
\* with the key, not expired, whose sub is a user.
Authentic(token) ==
    /\ token.form = "jwt"
    /\ token.sig = "good"
    /\ token.exp # "past"
    /\ token.sub \in {"admin", "guest"}

\* C19: a stream connection is opened only by a request whose token is
\* authentic, and then for the user of the token; a request with a missing,
\* invalid or expired token is refused with nothing removed from any
\* response list; a tick of an open connection pops from the response list
\* of the token's user only.
C19_StreamAuthenticated ==
    [][\A s \in Streams :
          /\ (conns[s].pc = "closed" /\ conns'[s] # conns[s]) =>
                /\ UNCHANGED <<store, popped, popCount, recv>>
                /\ IF Authentic(conns'[s].token)
                   THEN /\ conns'[s].pc = "tick"
                        /\ conns'[s].user =
                              (IF conns'[s].token.sub = "admin" THEN "u1" ELSE "u2")
                   ELSE /\ conns'[s].pc = "closed"
                        /\ conns'[s].http \in {401, 404}
          /\ conns[s].pc # "closed" =>
                /\ Authentic(conns[s].token)
                /\ conns'[s].pc # "closed" =>
                      conns'[s].token = conns[s].token /\ conns'[s].user = conns[s].user
          /\ (conns[s].pc = "tick" /\ conns'[s].pc = "yield") =>
                /\ \A u \in Users \ {USERS_DB[conns[s].token.sub]} :
                      chan'[u] = chan[u] /\ popped'[u] = popped[u]
                /\ conns'[s].frame.kind = "data" =>
                      \E i \in 1..Len(pubLog[USERS_DB[conns[s].token.sub]]) :
                          pubLog[USERS_DB[conns[s].token.sub]][i].id = conns'[s].frame.body.id
      ]_vars

\* A request with an expired token of admin has just been refused with 401:
\* admin's reply is still queued and was never popped, while an earlier
\* connection of the other user has drained that user's reply.
C19_Witness ==
    \E s \in Streams :
        /\ conns[s].pc = "closed" /\ conns[s].http = 401
        /\ conns[s].token = [form |-> "jwt", sig |-> "good", exp |-> "past", sub |-> "admin"]
        /\ chan["u1"] # <<>> /\ popped["u1"] = {}
        /\ popped["u2"] # {} /\ chan["u2"] = <<>>

\* C21: on every branch a call that returns normally returns the user
\* message it built at its start: the id, text, sender "user" and timestamp
\* of the entry it appended to the Ledger, never the bot reply.
C21_ReturnsUserMessage ==
    \A c \in DispatchIds :
        calls[c].pc = "done" =>
            LET u == calls[c].user
                r == calls[c].returned
                own == Positions(IdsOf(ledger[u]), r.id)
            IN  /\ r.sender = "user"
                /\ r.message = calls[c].text
                /\ r.id = calls[c].message_data.id
                /\ r.timestamp = calls[c].message_data.timestamp
                /\ r # calls[c].response_data
                /\ own # {}
                /\ \A i \in own : json_loads(ledger[u][i]) = r

\* A casual call and a call routed by the classifier have both returned.
C21_Witness ==
    \E c, d \in DispatchIds :
        /\ calls[c].pc = "done" /\ CasualPath(calls[c].text, calls[c].agent)
        /\ calls[c].response_data # NoMsg
        /\ calls[d].pc = "done" /\ ~CasualPath(calls[d].text, calls[d].agent)
        /\ AutoRouted(calls[d].agent)

\* C22: when a call has ended, normally or with an error, and its user
\* message is in the Ledger, then its casual reply has been published or
\* exactly one Job of it is on the task queue.
C22_NoAcceptedMessageLost ==
    \A c \in DispatchIds :
        (/\ calls[c].pc \in {"done", "failed"}
         /\ "ledger_user" \in Range(calls[c].effects)) =>
            \/ "publish" \in Range(calls[c].effects)
            \/ Cardinality(JobsBy(c)) = 1

\* C23, for the behaviours with at most MaxDispatch publishes: with a stream
\* connection that stays open and ticks fairly, an entry that is queued
\* while the connection is open is received at some later time.  (Publishing
\* that never stops is not among these behaviours: every send_message call
\* adds to the ledger, the clock and the ids, so a behaviour with endless
\* calls passes through endlessly many states.)
C23_EveryEntryEventuallySent ==
    \A s \in OneStream, u \in Users, id \in 1..(2 * MaxDispatch) :
        (/\ conns[s].pc \in {"tick", "yield"} /\ conns[s].user = u
         /\ \E i \in 1..Len(chan[u]) : json_loads(chan[u][i]).id = id)
            ~> (id \in recv[u])

\* A tick has popped an entry while one published before it stays queued:
\* the later arrival is sent first.
C23_Overtaken ==
    \E s \in OneStream :
        /\ conns[s].pc = "yield" /\ conns[s].frame.kind = "data"
        /\ \E i \in 1..Len(chan[conns[s].user]) :
               PubIndex(conns[s].user, json_loads(chan[conns[s].user][i]).id)
                   < PubIndex(conns[s].user, conns[s].frame.body.id)

C25_HistoryLimit ==
    [][\A h \in Readers :
          reads'[h] # reads[h] =>
              LET u == reads'[h].user
                  L == reads'[h].limit
                  r == reads'[h].messages
                  n == Min(L, Len(ledger[u]))
              IN  /\ Len(r) = n
                  /\ \A i \in 1..Min(n, Len(r)) :
                        r[i] = MessageResponse(json_loads(ledger[u][n + 1 - i]))
                  /\ UNCHANGED store
      ]_vars

\* The ids of the messages the calls cs have built for user u.
WrittenFor(cs, u) ==
    UNION {{cs[c].message_data.id, cs[c].response_data.id} :
              c \in {d \in DispatchIds : cs[d].user = u /\ cs[d].pc # "idle"}}
    \ {NoMsg.id}

\* C26: a step of a send_message call, a poll, a stream connection or a
\* history read of one user leaves the Ledger and the response list (and
\* their TTLs) of every other user as they were, and what a poll, a stream
\* tick or a history read hands to a user consists of messages built for
\* that user.
C26_PerUserIsolation ==
    [][/\ \A c \in DispatchIds, b \in Users :
             (calls'[c] # calls[c] /\ calls'[c].user # b) =>
                 /\ ledger'[b] = ledger[b] /\ ledgerTtl'[b] = ledgerTtl[b]
                 /\ chan'[b] = chan[b] /\ chanTtl'[b] = chanTtl[b]
       /\ \A p \in Pollers, b \in Users :
             (polls'[p] # polls[p] /\ polls'[p].user # b) =>
                 /\ ledger'[b] = ledger[b] /\ ledgerTtl'[b] = ledgerTtl[b]
                 /\ chan'[b] = chan[b] /\ chanTtl'[b] = chanTtl[b]
       /\ \A s \in Streams, b \in Users :
             (conns'[s] # conns[s] /\ conns'[s].user # b) =>
                 /\ ledger'[b] = ledger[b] /\ ledgerTtl'[b] = ledgerTtl[b]
                 /\ chan'[b] = chan[b] /\ chanTtl'[b] = chanTtl[b]
       /\ \A h \in Readers :
             reads'[h] # reads[h] => UNCHANGED store
       /\ \A p \in Pollers :
             \A i \in 1..Len(polls'[p].responses) :
                 polls'[p].responses[i].id \in WrittenFor(calls', polls'[p].user)
       /\ \A s \in Streams :
             conns'[s].frame.kind = "data" =>
                 conns'[s].frame.body.id \in WrittenFor(calls', conns'[s].user)
       /\ \A h \in Readers :
             \A i \in 1..Len(reads'[h].messages) :
                 reads'[h].messages[i].id \in WrittenFor(calls', reads'[h].user)
      ]_vars

\* Both users have a reply published and a Ledger; user u2's poll has
\* returned u2's reply, the stream connection of u1 is about to send u1's, and
\* a history read of u2 has returned two messages.
C26_Witness ==
    /\ polls["p1"].pc = "returned" /\ polls["p1"].user = "u2"
    /\ Len(polls["p1"].responses) = 1
    /\ conns["s1"].pc = "yield" /\ conns["s1"].user = "u1"
    /\ conns["s1"].frame.kind = "data"
    /\ reads["h1"].pc = "returned" /\ reads["h1"].user = "u2"
    /\ Len(reads["h1"].messages) = 2
    /\ Len(ledger["u1"]) = 2
====
